---- MODULE Spec2Model ----
(***************************************************************************)
(* bokeh/models/widgets/buttons.py: the Button, Toggle and Dropdown widget *)
(* models, their declared properties and their deprecated on_click /       *)
(* js_on_click methods.  One instance of each widget class is modelled.    *)
(* The callback manager (on_event, js_on_event, on_change, js_on_change),  *)
(* the deprecation helper and the property system live outside this file   *)
(* and are modelled by what the widgets need of them.                      *)
(***************************************************************************)
EXTENDS Integers, Sequences, FiniteSets

VARIABLES widgets, notices, completed, lastCall, lastDispatch, lastSet

vars == <<widgets, notices, completed, lastCall, lastDispatch, lastSet>>

(* ----------------------------- bounds ---------------------------------- *)

\* Number of deprecated-method calls explored in one behaviour.
MaxCalls == 2

\* Longest menu assigned to Dropdown.menu.
MaxMenuLen == 3

(* --------------------------- vocabulary -------------------------------- *)

Widgets == {"Button", "Toggle", "Dropdown"}

Methods == {"on_click", "js_on_click"}

\* Handlers passed by the caller (Python callables or JS callbacks).
Handlers == {"h1", "h2"}

\* State of the warnings filter for the deprecation category at the call:
\* the notice is shown as a plain warning, or escalated to an exception.
Filters == {"always", "error"}

\* bokeh.events.ButtonClick.event_name / MenuItemClick.event_name
ButtonClick == "button_click"

MenuItemClick == "menu_item_click"

Events == {ButtonClick, MenuItemClick}

NoHandler == "-"

Range(s) == {s[i] : i \in 1..Len(s)}

RECURSIVE Count(_, _)
Count(s, x) ==
  IF s = <<>> THEN 0
  ELSE (IF Head(s) = x THEN 1 ELSE 0) + Count(Tail(s), x)

(* ------------------------ menu entry values ---------------------------- *)

\* Python values offered as menu entries: an atom is None, a str, an int or a
\* Callback instance; an entry is one atom or a tuple of atoms.
AtomNone == [t |-> "None", v |-> "None"]

AtomStr(s) == [t |-> "str", v |-> s]

AtomInt == [t |-> "int", v |-> "7"]

AtomCallback == [t |-> "Callback", v |-> "cb"]

Plain(a) == [tuple |-> FALSE, items |-> <<a>>]

Tup(s) == [tuple |-> TRUE, items |-> s]

CandidateEntries ==
  { Plain(AtomNone), Plain(AtomStr("a")), Plain(AtomInt), Plain(AtomCallback),
    Tup(<<AtomStr("a"), AtomStr("x")>>),
    Tup(<<AtomStr("a"), AtomCallback>>),
    Tup(<<AtomStr("a"), AtomInt>>),
    Tup(<<AtomInt, AtomStr("x")>>),
    Tup(<<AtomStr("a"), AtomStr("x"), AtomStr("y")>>) }

CandidateMenus == UNION { [1..n -> CandidateEntries] : n \in 0..MaxMenuLen }

\* Null, String, Instance(Callback)
IsNull(e) == ~e.tuple /\ e.items[1].t = "None"

IsString(e) == ~e.tuple /\ e.items[1].t = "str"

IsCallbackInstance(e) == ~e.tuple /\ e.items[1].t = "Callback"

\* Tuple(String, Either(String, Instance(Callback)))
IsTextValuePair(e) ==
  /\ e.tuple
  /\ Len(e.items) = 2
  /\ IsString(Plain(e.items[1]))
  /\ (IsString(Plain(e.items[2])) \/ IsCallbackInstance(Plain(e.items[2])))

\* Variant: the tuple alternative declared without its element types.
MenuEntryAccepts_AnyPair(e) ==
  IsNull(e) \/ IsString(e) \/ (e.tuple /\ Len(e.items) = 2)

\* Either(Null, String, Tuple(String, Either(String, Instance(Callback))))
MenuEntryAccepts(e) == IsNull(e) \/ IsString(e) \/ IsTextValuePair(e)

\* List(Either(...)): every element is accepted by the element type.
MenuAccepts(m) == \A i \in 1..Len(m) : MenuEntryAccepts(m[i])

(* --------------------------- declarations ------------------------------ *)

\* ButtonLike.button_type, AbstractButton.label / icon and the per-class
\* overrides and additions, at their declared defaults.
DefaultProps(w) ==
  IF w = "Button" THEN
    [label |-> "Button", icon |-> "None", button_type |-> "default"]
  ELSE IF w = "Toggle" THEN
    [label |-> "Toggle", icon |-> "None", button_type |-> "default",
     active |-> FALSE]
  ELSE
    [label |-> "Dropdown", icon |-> "None", button_type |-> "default",
     split |-> FALSE, menu |-> <<>>]

\* The same properties given as keyword arguments at construction.
CustomProps(w) ==
  IF w = "Button" THEN
    [label |-> "OK", icon |-> "icon", button_type |-> "primary"]
  ELSE IF w = "Toggle" THEN
    [label |-> "Mute", icon |-> "icon", button_type |-> "success",
     active |-> TRUE]
  ELSE
    [label |-> "File", icon |-> "None", button_type |-> "warning",
     split |-> TRUE,
     menu |-> <<Tup(<<AtomStr("a"), AtomStr("x")>>), Plain(AtomNone),
                Tup(<<AtomStr("a"), AtomCallback>>)>>]

\* How the three widgets of a behaviour were constructed.
Configs == {"default", "custom"}

\* A freshly constructed widget: its properties, no callbacks.
NewWidget(w, c) ==
  [props |-> IF c = "default" THEN DefaultProps(w) ELSE CustomProps(w),
   event_callbacks |-> [e \in Events |-> <<>>],
   js_event_callbacks |-> [e \in Events |-> {}],
   change_callbacks |-> <<>>,
   js_property_callbacks |-> {}]

(* ----------------- collaborators outside this file --------------------- *)

\* One step of a running call, as seen by the callback manager.
Step(op, key, handler) == [op |-> op, key |-> key, handler |-> handler]

\* util.deprecation.deprecated(since, old, new): issues one deprecation
\* warning naming the replacement; under an "error" filter the warning is
\* raised as an exception and the caller's remaining statements do not run.
deprecated(st, old, new) ==
  IF st.raised THEN st
  ELSE [st EXCEPT
          !.notices = Append(@, [since |-> <<3, 0, 0>>, old |-> old, new |-> new,
                                 delivery |-> IF st.filter = "error"
                                              THEN "error" ELSE "warning"]),
          !.trace = Append(@, Step("deprecated", old, NoHandler)),
          !.raised = (st.filter = "error")]

\* Model.on_event(event, callback): appends to the event's callback list.
on_event(st, w, event, callback) ==
  IF st.raised THEN st
  ELSE [st EXCEPT
          !.widgets[w].event_callbacks[event] = Append(@, callback),
          !.trace = Append(@, Step("on_event", event, callback))]

\* Model.js_on_event(event, callback): the callback is among the event's
\* JS callbacks afterwards.
js_on_event(st, w, event, callback) ==
  IF st.raised THEN st
  ELSE [st EXCEPT
          !.widgets[w].js_event_callbacks[event] = @ \cup {callback},
          !.trace = Append(@, Step("js_on_event", event, callback))]

\* HasProps.on_change(attr, callback): appends a property-change callback.
on_change(st, w, attr, callback) ==
  IF st.raised THEN st
  ELSE [st EXCEPT
          !.widgets[w].change_callbacks = Append(@, [attr |-> attr, fn |-> callback]),
          !.trace = Append(@, Step("on_change", attr, callback.handler))]

\* Model.js_on_change(attr, callback)
js_on_change(st, w, attr, callback) ==
  IF st.raised THEN st
  ELSE [st EXCEPT
          !.widgets[w].js_property_callbacks = @ \cup {[attr |-> attr, fn |-> callback]},
          !.trace = Append(@, Step("js_on_change", attr, callback))]

(* ------------------------ the deprecated methods ----------------------- *)

\* The replacement a notice documents: the alternatives joined by OR.
Repl(fn, event) == [fn |-> fn, event |-> event]

\* Button.on_click
Button_on_click(st, handler) ==
  on_event(deprecated(st, "on_click(handler)", <<Repl("on_event", ButtonClick)>>),
           "Button", ButtonClick, handler)

\* Button.js_on_click
Button_js_on_click(st, handler) ==
  js_on_event(deprecated(st, "js_on_click(handler)", <<Repl("js_on_event", ButtonClick)>>),
              "Button", ButtonClick, handler)

\* Variant: the wrapper hands the handler the previous value.
Toggle_on_click_lambda_PassesOld(handler, attr, old, new) ==
  [handler |-> handler, via |-> "change", args |-> <<old>>]

\* lambda attr, old, new: handler(new)
Toggle_on_click_lambda(handler, attr, old, new) ==
  [handler |-> handler, via |-> "change", args |-> <<new>>]

\* Variant: registering the handler also switches the toggle on.
Toggle_on_click_Activates(st, handler) ==
  on_change(
    [deprecated(st, "on_click(handler)", <<Repl("on_event", ButtonClick)>>)
       EXCEPT !.widgets["Toggle"].props.active = TRUE],
    "Toggle", "active", [lambda |-> TRUE, handler |-> handler])

\* Toggle.on_click
Toggle_on_click(st, handler) ==
  on_change(deprecated(st, "on_click(handler)", <<Repl("on_event", ButtonClick)>>),
            "Toggle", "active", [lambda |-> TRUE, handler |-> handler])

\* Variant: the notice is issued after the registration.
Toggle_js_on_click_NoticeLast(st, handler) ==
  deprecated(js_on_change(st, "Toggle", "active", handler),
             "js_on_click(handler)", <<Repl("js_on_event", ButtonClick)>>)

\* Toggle.js_on_click
Toggle_js_on_click(st, handler) ==
  js_on_change(deprecated(st, "js_on_click(handler)", <<Repl("js_on_event", ButtonClick)>>),
               "Toggle", "active", handler)

\* Variant: one notice per registration.
Dropdown_on_click_NoticePerRegistration(st, handler) ==
  on_event(
    deprecated(
      on_event(
        deprecated(st, "on_click(handler)", <<Repl("on_event", ButtonClick)>>),
        "Dropdown", ButtonClick, handler),
      "on_click(handler)", <<Repl("on_event", MenuItemClick)>>),
    "Dropdown", MenuItemClick, handler)

\* Variant: the two registrations in the other order.
Dropdown_on_click_MenuItemFirst(st, handler) ==
  on_event(
    on_event(
      deprecated(st, "on_click(handler)",
                 <<Repl("on_event", ButtonClick), Repl("on_event", MenuItemClick)>>),
      "Dropdown", MenuItemClick, handler),
    "Dropdown", ButtonClick, handler)

\* Dropdown.on_click
Dropdown_on_click(st, handler) ==
  on_event(
    on_event(
      deprecated(st, "on_click(handler)",
                 <<Repl("on_event", ButtonClick), Repl("on_event", MenuItemClick)>>),
      "Dropdown", ButtonClick, handler),
    "Dropdown", MenuItemClick, handler)

\* Variant: the menu item registration is missing.
Dropdown_js_on_click_ButtonOnly(st, handler) ==
  js_on_event(
    deprecated(st, "js_on_click(handler)",
               <<Repl("js_on_event", ButtonClick), Repl("js_on_event", MenuItemClick)>>),
    "Dropdown", ButtonClick, handler)

\* Dropdown.js_on_click
Dropdown_js_on_click(st, handler) ==
  js_on_event(
    js_on_event(
      deprecated(st, "js_on_click(handler)",
                 <<Repl("js_on_event", ButtonClick), Repl("js_on_event", MenuItemClick)>>),
      "Dropdown", ButtonClick, handler),
    "Dropdown", MenuItemClick, handler)

\* Method resolution: widget class and method name to the method body.
Invoke(st, w, m, handler) ==
  IF w = "Button" /\ m = "on_click" THEN Button_on_click(st, handler)
  ELSE IF w = "Button" THEN Button_js_on_click(st, handler)
  ELSE IF w = "Toggle" /\ m = "on_click" THEN Toggle_on_click(st, handler)
  ELSE IF w = "Toggle" THEN Toggle_js_on_click(st, handler)
  ELSE IF m = "on_click" THEN Dropdown_on_click(st, handler)
  ELSE Dropdown_js_on_click(st, handler)

(* ------------------------------ state ---------------------------------- *)

NoCall ==
  [n |-> 0, widget |-> "-", method |-> "-", handler |-> NoHandler,
   filter |-> "-", result |-> "-", trace |-> <<>>, notice |-> <<>>]

NoDispatch ==
  [kind |-> "none", widget |-> "-", key |-> "-", old |-> FALSE, new |-> FALSE,
   at |-> 0, invoked |-> <<>>]

NoSet == [accepted |-> TRUE, n |-> 0]

Init ==
  /\ \E c \in Configs : widgets = [w \in Widgets |-> NewWidget(w, c)]
  /\ notices = <<>>
  /\ completed = [w \in Widgets |-> [m \in Methods |-> [h \in Handlers |-> 0]]]
  /\ lastCall = NoCall
  /\ lastDispatch = NoDispatch
  /\ lastSet = NoSet

\* widget.on_click(handler) / widget.js_on_click(handler), start to return or
\* raise, under the warnings filter in force.
Call(w, m, handler, filter) ==
  /\ lastCall.n < MaxCalls
  /\ LET st0 == [widgets |-> widgets, notices |-> notices, trace |-> <<>>,
                 raised |-> FALSE, filter |-> filter]
         st == Invoke(st0, w, m, handler)
     IN /\ widgets' = st.widgets
        /\ notices' = st.notices
        /\ completed' = IF st.raised THEN completed
                        ELSE [completed EXCEPT ![w][m][handler] = @ + 1]
        /\ lastCall' = [n |-> lastCall.n + 1, widget |-> w, method |-> m,
                        handler |-> handler, filter |-> filter,
                        result |-> IF st.raised THEN "raise" ELSE "None",
                        trace |-> st.trace,
                        notice |-> SubSeq(st.notices, Len(notices) + 1, Len(st.notices))]
  /\ UNCHANGED <<lastDispatch, lastSet>>

\* An event of the given name reaches the widget: every callback registered
\* for it is called with the event.
TriggerEvent(w, event) ==
  /\ LET cbs == widgets[w].event_callbacks[event]
     IN lastDispatch' =
          [kind |-> "event", widget |-> w, key |-> event, old |-> FALSE, new |-> FALSE,
           at |-> lastCall.n,
           invoked |-> [i \in 1..Len(cbs) |->
                          [handler |-> cbs[i], via |-> "event", args |-> <<event>>]]]
  /\ UNCHANGED <<widgets, notices, completed, lastCall, lastSet>>

\* toggle.active = value: an assignment of the current value notifies nobody;
\* a change calls every property-change callback with (attr, old, new).
SetActive(value) ==
  /\ LET old == widgets["Toggle"].props.active
         cbs == widgets["Toggle"].change_callbacks
     IN /\ widgets' = [widgets EXCEPT !["Toggle"].props.active = value]
        /\ lastDispatch' =
             [kind |-> "change", widget |-> "Toggle", key |-> "active",
              old |-> old, new |-> value, at |-> lastCall.n,
              invoked |-> IF value = old THEN <<>>
                          ELSE [i \in 1..Len(cbs) |->
                                  Toggle_on_click_lambda(cbs[i].fn.handler,
                                                         cbs[i].attr, old, value)]]
  /\ UNCHANGED <<notices, completed, lastCall, lastSet>>

\* dropdown.menu = m: the value is validated against the declared type; a
\* rejected value raises and leaves the property as it was.
SetMenu(m) ==
  /\ widgets' = IF MenuAccepts(m)
                THEN [widgets EXCEPT !["Dropdown"].props.menu = m]
                ELSE widgets
  /\ lastSet' = [accepted |-> MenuAccepts(m), n |-> 1]
  /\ UNCHANGED <<notices, completed, lastCall, lastDispatch>>

Next ==
  \/ \E w \in Widgets, m \in Methods, h \in Handlers, f \in Filters : Call(w, m, h, f)
  \/ \E w \in Widgets, e \in Events : TriggerEvent(w, e)
  \/ \E v \in BOOLEAN : SetActive(v)

Spec == Init /\ [][Next]_vars

\* The Dropdown under menu assignments alone.
NextMenu == \E m \in CandidateMenus : SetMenu(m)

SpecMenu == Init /\ [][NextMenu]_vars

(* ======================= properties of the code ======================== *)

\* The registration steps of the last call (everything but the notice).
Registrations(call) == SelectSeq(call.trace, LAMBDA s : s.op # "deprecated")

\* A call of a deprecated method has just been made.
IsCall == lastCall.n > 0

CallStep == lastCall'.n = lastCall.n + 1

\* C1: every call of on_click / js_on_click on Button, Toggle or Dropdown
\* emits exactly one deprecation notice, whatever was called before: after n
\* calls there are n notices, and the last call issued one.
C1_OneNoticePerCall ==
  /\ Len(notices) = lastCall.n
  /\ IsCall =>
       /\ Len(lastCall.notice) = 1
       /\ Len(SelectSeq(lastCall.trace, LAMBDA s : s.op = "deprecated")) = 1

C1_Witness ==
  /\ lastCall.n = MaxCalls
  /\ lastCall.widget = "Dropdown"
  /\ lastCall.result = "None"
  /\ Len(Registrations(lastCall)) = 2
  /\ Len(notices) = MaxCalls

\* The events the last call's handler is registered for on the called widget,
\* in the table of the facility the method name stands for.
RegisteredEvents(call) ==
  { e \in Events :
      IF call.method = "on_click"
      THEN call.handler \in Range(widgets[call.widget].event_callbacks[e])
      ELSE call.handler \in widgets[call.widget].js_event_callbacks[e] }

\* The event names the last call's notice documents as replacement.
NoticeEvents(call) == { call.notice[1].new[i].event : i \in 1..Len(call.notice[1].new) }

\* C2: after a completed call the handler is registered for exactly the
\* events named as replacement in that call's notice.
C2_ForwardsToDocumented ==
  (IsCall /\ lastCall.result = "None") =>
     RegisteredEvents(lastCall) = NoticeEvents(lastCall)

\* C3: on_click registers only through on_event, js_on_click only through
\* js_on_event; no other registration facility is used.
C3_PassThrough ==
  IsCall =>
    \A i \in 1..Len(Registrations(lastCall)) :
      Registrations(lastCall)[i].op =
        (IF lastCall.method = "on_click" THEN "on_event" ELSE "js_on_event")

\* Registrations one call of a widget's deprecated method makes.
ExpectedRegistrations(w) == IF w = "Dropdown" THEN 2 ELSE 1

\* C4: a call either returns None or fails with the escalated notice; when
\* the notice is a plain warning the call returns None with all of its
\* registrations made, for the handler given.
C4_WarningOnly ==
  IsCall =>
    /\ lastCall.result \in {"None", "raise"}
    /\ lastCall.result = "raise" => lastCall.filter = "error"
    /\ lastCall.filter = "always" =>
         /\ lastCall.result = "None"
         /\ lastCall.notice[1].delivery = "warning"
         /\ Len(Registrations(lastCall)) = ExpectedRegistrations(lastCall.widget)
         /\ \A i \in 1..Len(Registrations(lastCall)) :
              Registrations(lastCall)[i].handler = lastCall.handler

C4_Witness ==
  /\ IsCall
  /\ lastCall.widget = "Dropdown"
  /\ lastCall.method = "js_on_click"
  /\ lastCall.filter = "always"
  /\ lastCall.result = "None"
  /\ lastCall.handler \in widgets["Dropdown"].js_event_callbacks[MenuItemClick]

\* Shapes of a menu entry, read off the stored value.
EntryIsSeparator(e) == ~e.tuple /\ e.items = <<AtomNone>>

EntryIsPair(e) ==
  /\ e.tuple
  /\ Len(e.items) = 2
  /\ e.items[1].t = "str"
  /\ e.items[2].t \in {"str", "Callback"}

EntryIsBareString(e) == ~e.tuple /\ Len(e.items) = 1 /\ e.items[1].t = "str"

DropdownMenu == widgets["Dropdown"].props.menu

\* C5 as stated: every menu entry is a separator or a (text, value) pair.
C5_SeparatorOrPair ==
  \A i \in 1..Len(DropdownMenu) :
    EntryIsSeparator(DropdownMenu[i]) \/ EntryIsPair(DropdownMenu[i])

\* C5, amended: in every state reached by menu assignments, every menu entry
\* is a separator, a bare string or a (text, value) pair whose value is a
\* string or a Callback.
C5_SeparatorStringOrPair ==
  \A i \in 1..Len(DropdownMenu) :
    \/ EntryIsSeparator(DropdownMenu[i])
    \/ EntryIsBareString(DropdownMenu[i])
    \/ EntryIsPair(DropdownMenu[i])

C5_Witness ==
  /\ lastSet.n = 1
  /\ lastSet.accepted
  /\ Len(DropdownMenu) = MaxMenuLen
  /\ \E i \in 1..Len(DropdownMenu) : EntryIsBareString(DropdownMenu[i])
  /\ \E i \in 1..Len(DropdownMenu) : EntryIsSeparator(DropdownMenu[i])
  /\ \E i \in 1..Len(DropdownMenu) : EntryIsPair(DropdownMenu[i])

\* The trace of a completed call that registers handler h for the events es,
\* in this order, through facility op.
ForwardTrace(m, op, es, h) ==
  <<Step("deprecated", m \o "(handler)", NoHandler)>>
    \o [i \in 1..Len(es) |-> Step(op, es[i], h)]

\* Events a widget's on_click / js_on_click forwards to, in order.
ClickEvents(w) ==
  IF w = "Dropdown" THEN <<ButtonClick, MenuItemClick>>
  ELSE IF w = "Button" THEN <<ButtonClick>>
  ELSE <<>>

\* Invocations of handler h in the last dispatch.
Invocations(h) == Len(SelectSeq(lastDispatch.invoked, LAMBDA c : c.handler = h))

\* C6: a completed Dropdown.on_click(h) registers h through on_event for
\* button_click and then menu_item_click, once each, and js_on_click does the
\* same through js_on_event; Button.on_click / js_on_click register h once,
\* for button_click only.  Hence each event's callback list holds h once per
\* completed on_click(h), and an event reaching the widget invokes h once per
\* completed on_click(h) that forwards to it.
C6_DropdownBoth_ButtonOne ==
  /\ (IsCall /\ lastCall.result = "None" /\ lastCall.widget \in {"Button", "Dropdown"}) =>
       lastCall.trace =
         ForwardTrace(lastCall.method,
                      IF lastCall.method = "on_click" THEN "on_event" ELSE "js_on_event",
                      ClickEvents(lastCall.widget), lastCall.handler)
  /\ \A w \in {"Button", "Dropdown"}, e \in Events, h \in Handlers :
       /\ Count(widgets[w].event_callbacks[e], h) =
            (IF e \in Range(ClickEvents(w)) THEN completed[w]["on_click"][h] ELSE 0)
       /\ h \in widgets[w].js_event_callbacks[e] <=>
            (e \in Range(ClickEvents(w)) /\ completed[w]["js_on_click"][h] > 0)
  /\ (lastDispatch.kind = "event" /\ lastDispatch.at = lastCall.n
        /\ lastDispatch.widget \in {"Button", "Dropdown"}) =>
       \A h \in Handlers :
         Invocations(h) =
           (IF lastDispatch.key \in Range(ClickEvents(lastDispatch.widget))
            THEN completed[lastDispatch.widget]["on_click"][h] ELSE 0)

C6_Witness ==
  /\ lastCall.widget = "Dropdown"
  /\ lastCall.method = "on_click"
  /\ lastCall.result = "None"
  /\ lastDispatch.kind = "event"
  /\ lastDispatch.widget = "Dropdown"
  /\ lastDispatch.key = MenuItemClick
  /\ lastDispatch.at = lastCall.n
  /\ Invocations(lastCall.handler) = 1

\* C7: with Toggle.on_click(h) made, a change of 'active' from old to new
\* invokes h once per on_click(h) made (exactly once after one), each time
\* with the single argument new; an assignment that leaves 'active' as it was
\* and an event reaching the Toggle invoke nothing.
C7_ToggleCalledOnChange ==
  (lastDispatch.widget = "Toggle" /\ lastDispatch.at = lastCall.n) =>
    /\ lastDispatch.kind = "event" => lastDispatch.invoked = <<>>
    /\ (lastDispatch.kind = "change" /\ lastDispatch.old = lastDispatch.new) =>
         lastDispatch.invoked = <<>>
    /\ (lastDispatch.kind = "change" /\ lastDispatch.old # lastDispatch.new) =>
         /\ \A h \in Handlers :
              Invocations(h) = completed["Toggle"]["on_click"][h]
         /\ \A i \in 1..Len(lastDispatch.invoked) :
              lastDispatch.invoked[i].args = <<lastDispatch.new>>

C7_Witness ==
  /\ completed["Toggle"]["on_click"]["h1"] = 1
  /\ completed["Toggle"]["on_click"]["h2"] = 0
  /\ lastDispatch.kind = "change"
  /\ lastDispatch.at = lastCall.n
  /\ lastDispatch.old # lastDispatch.new
  /\ lastDispatch.invoked =
       <<[handler |-> "h1", via |-> "change", args |-> <<lastDispatch.new>>]>>

\* C8: in every call the notice comes before any registration, and a call
\* whose notice is escalated to an error raises with the widgets' callbacks
\* (and everything else of the widgets) as they were.
C8_NoticeFirst ==
  /\ [](IsCall => lastCall.trace[1].op = "deprecated")
  /\ [][(CallStep /\ lastCall'.filter = "error") =>
          /\ lastCall'.result = "raise"
          /\ Registrations(lastCall') = <<>>
          /\ widgets' = widgets]_vars

C8_Witness ==
  /\ lastCall.n = MaxCalls
  /\ lastCall.widget = "Dropdown"
  /\ lastCall.filter = "error"
  /\ lastCall.result = "raise"
  /\ completed["Dropdown"]["on_click"]["h1"] = 1
  /\ Len(widgets["Dropdown"].event_callbacks[MenuItemClick]) = 1

\* C9: a call of on_click / js_on_click leaves every declared property of
\* every widget as it was, Toggle.active included.
C9_PropsUnchanged ==
  [][CallStep => \A w \in Widgets : widgets'[w].props = widgets[w].props]_vars

C9_Witness ==
  /\ lastCall.n = MaxCalls
  /\ lastCall.widget = "Toggle"
  /\ lastCall.method = "on_click"
  /\ lastCall.result = "None"
  /\ widgets["Toggle"].props.active
  /\ widgets["Dropdown"].props.menu # <<>>
  /\ Len(widgets["Toggle"].change_callbacks) > 0

====
